---- MODULE Spec2Model ----
(***************************************************************************)
(* A model of the Python package rvimage-py of bertiqwerty/rvimage:        *)
(*   rvimage/converters.py        the run-length codec and the mask fills, *)
(*   rvimage/domain.py            boxes, polygons, connected components,   *)
(*   rvimage/collection_types.py  BboxAnnos and BrushAnnos.                *)
(*                                                                         *)
(* A numpy array is a record [shape |-> <<rows, cols>>, flat |-> the       *)
(* row-major buffer]; ravel/flatten/reshape act on flat.  Python lists are  *)
(* sequences (index i of Python is index i + 1 here).                      *)
(***************************************************************************)
EXTENDS Integers, Sequences, FiniteSets, TLC

VARIABLES
    annos,      \* the BboxAnnos / BrushAnnos object under operation
    pre,        \* annos as it was before the last operation
    the_mask,    \* the caller's mask buffer
    pre_mask,   \* the_mask as it was before the last operation
    rle,        \* the run list last produced by mask_to_rle
    ret,        \* what the last operation returned
    last        \* the last operation: [op, args, raised]

vars == <<annos, pre, the_mask, pre_mask, rle, ret, last>>

None == [t |-> "None"]
NoOp == [op |-> "init", args |-> <<>>, raised |-> "none"]
Call(op, args, raised) == [op |-> op, args |-> args, raised |-> raised]

(***************************************************************************)
(* Bounds of the model.                                                    *)
(***************************************************************************)
MaxH == 2        \* rows of the masks of the codec specification
MaxW == 2        \* columns of the masks of the codec specification
MaxRuns == 3     \* length of the free run lists handed to rle_to_mask
MaxRun == 2      \* largest single run of those lists
MaxValue == 2    \* largest fill value

(***************************************************************************)
(* numpy helpers                                                           *)
(***************************************************************************)
Rows(m) == m.shape[1]
Cols(m) == m.shape[2]
zeros(h, w) == [shape |-> <<h, w>>, flat |-> [j \in 1..(h * w) |-> 0]]
Px(m, r, c) == m.flat[r * Cols(m) + c + 1]

\* flat[a:b] = v of numpy: the slice is clipped to the buffer
SliceAssign(flat, a, b, v) ==
    [j \in 1..Len(flat) |-> IF a < j /\ j <= b THEN v ELSE flat[j]]

RECURSIVE SumSeq(_)
SumSeq(s) == IF s = <<>> THEN 0 ELSE Head(s) + SumSeq(Tail(s))

RECURSIVE SeqsUpTo(_, _)
SeqsUpTo(S, n) ==
    IF n = 0 THEN {<<>>}
    ELSE LET shorter == SeqsUpTo(S, n - 1)
         IN  shorter \cup {Append(s, x) : s \in {t \in shorter : Len(t) = n - 1}, x \in S}

SeqsOfLen(S, n) == [1..n -> S]

(***************************************************************************)
(* converters.py: the run-length codec                                     *)
(***************************************************************************)
RECURSIVE rle_to_mask_loop_erasing(_, _, _, _, _)
rle_to_mask_loop_erasing(flat_mask, runs, value, i, pos) ==
    IF i >= Len(runs) THEN flat_mask
    ELSE LET n_elts == runs[i + 1]
             written == SliceAssign(flat_mask, pos, pos + n_elts,
                                    IF i % 2 = 1 THEN value ELSE 0)
         IN  rle_to_mask_loop_erasing(written, runs, value, i + 1, pos + n_elts)

\* the loop of rle_to_mask, from run i (0-based) at position pos
RECURSIVE rle_to_mask_loop(_, _, _, _, _)
rle_to_mask_loop(flat_mask, runs, value, i, pos) ==
    IF i >= Len(runs) THEN flat_mask
    ELSE LET n_elts == runs[i + 1]
             written == IF i % 2 = 1
                        THEN SliceAssign(flat_mask, pos, pos + n_elts, value)
                        ELSE flat_mask
         IN  rle_to_mask_loop(written, runs, value, i + 1, pos + n_elts)

\* rle_to_mask(rle, value, mask) with mask an array: written through ravel()
rle_to_mask_array(runs, value, mask) ==
    [shape |-> mask.shape,
     flat  |-> rle_to_mask_loop(mask.flat, runs, value, 0, 0)]

\* rle_to_mask(rle, value, mask) with mask a BbI: a fresh zero array of (h, w)
rle_to_mask_bb(runs, value, bb) == rle_to_mask_array(runs, value, zeros(bb.h, bb.w))

\* test.py: the reference decoder rle_to_mask(im_mask, rle), from run i
\* (0-based) at position pos; it writes 1
RECURSIVE ref_rle_to_mask_loop(_, _, _, _)
ref_rle_to_mask_loop(flat_mask, runs, i, pos) ==
    IF i >= Len(runs) THEN flat_mask
    ELSE ref_rle_to_mask_loop(
             IF i % 2 = 1 THEN SliceAssign(flat_mask, pos, pos + runs[i + 1], 1)
             ELSE flat_mask,
             runs, i + 1, pos + runs[i + 1])
ref_rle_to_mask(im_mask, runs) ==
    [shape |-> im_mask.shape, flat |-> ref_rle_to_mask_loop(im_mask.flat, runs, 0, 0)]

\* the double loop of mask_to_rle, at its k-th iteration; mask_w and mask_h
\* are bound as the code binds them: mask_w, mask_h = mask.shape
RECURSIVE mask_to_rle_loop(_, _, _, _, _, _, _)
mask_to_rle_loop(flat_mask, mask_w, mask_h, k, runs, current_run, current_value) ==
    IF k >= mask_h * mask_w THEN Append(runs, current_run)
    ELSE LET y == k \div mask_w
             x == k % mask_w
             value == flat_mask[(y * mask_w + x) + 1]
         IN  IF value = current_value
             THEN mask_to_rle_loop(flat_mask, mask_w, mask_h, k + 1,
                                   runs, current_run + 1, current_value)
             ELSE mask_to_rle_loop(flat_mask, mask_w, mask_h, k + 1,
                                   Append(runs, current_run), 1, value)

mask_to_rle_nolead(mask) ==
    LET first == IF Len(mask.flat) = 0 THEN 0 ELSE mask.flat[1]
    IN  mask_to_rle_loop(mask.flat, mask.shape[1], mask.shape[2], 0, <<>>, 0, first)

mask_to_rle_colmajor(mask) ==
    LET mask_w == mask.shape[1]
        mask_h == mask.shape[2]
        by_column == [k \in 1..Len(mask.flat) |->
                         mask.flat[((k - 1) % mask_w) * mask_h + ((k - 1) \div mask_w) + 1]]
    IN  mask_to_rle_loop(by_column, mask_w, mask_h, 0, <<>>, 0, 0)

mask_to_rle(mask) ==
    mask_to_rle_loop(mask.flat, mask.shape[1], mask.shape[2], 0, <<>>, 0, 0)

(***************************************************************************)
(* Specification of the codec: a caller holds a binary mask, encodes it,   *)
(* decodes the runs onto a blank mask of the same shape, and decodes free  *)
(* run lists into a box.                                                   *)
(***************************************************************************)
Shapes == {<<h, w>> : h \in 1..MaxH, w \in 1..MaxW}
BinaryMasks == UNION {{[shape |-> s, flat |-> f] : f \in SeqsOfLen({0, 1}, s[1] * s[2])}
                      : s \in Shapes}
RunLists == SeqsUpTo(0..MaxRun, MaxRuns)
FillValues == 0..MaxValue

IdleAnnos == annos = None /\ pre = None

InitRle ==
    /\ IdleAnnos
    /\ the_mask \in BinaryMasks
    /\ pre_mask = the_mask
    /\ rle = <<>>
    /\ ret = None
    /\ last = NoOp

\* rle = mask_to_rle(the_mask)
Encode ==
    /\ last.op = "init"
    /\ rle' = mask_to_rle(the_mask)
    /\ ret' = rle'
    /\ last' = Call("mask_to_rle", <<the_mask>>, "none")
    /\ UNCHANGED <<annos, pre, the_mask, pre_mask>>

\* rle_to_mask(rle, 1, np.zeros(the_mask.shape))
DecodeEncoded ==
    /\ last.op = "mask_to_rle"
    /\ LET blank == zeros(Rows(the_mask), Cols(the_mask))
       IN  /\ ret' = rle_to_mask_array(rle, 1, blank)
           /\ last' = Call("rle_to_mask", <<rle, 1, blank>>, "none")
    /\ UNCHANGED <<annos, pre, the_mask, pre_mask, rle>>

\* rle_to_mask(runs, value, the_mask) for a free run list: the caller's array
\* is written in place (ravel() of a contiguous array is a view) and returned
DecodeOnto ==
    /\ last.op = "init"
    /\ \E runs \in RunLists, value \in FillValues :
         /\ the_mask' = rle_to_mask_array(runs, value, the_mask)
         /\ ret' = the_mask'
         /\ last' = Call("rle_to_mask", <<runs, value, the_mask>>, "none")
    /\ pre_mask' = the_mask
    /\ UNCHANGED <<annos, pre, rle>>

\* rle_to_mask(runs, value, bb) for a free run list and a BbI target of the
\* caller's image size
DecodeInBox ==
    /\ last.op = "init"
    /\ \E runs \in RunLists, value \in FillValues :
         LET bb == [t |-> "BbI", x |-> 0, y |-> 0, w |-> Cols(the_mask), h |-> Rows(the_mask)]
         IN  /\ ret' = rle_to_mask_bb(runs, value, bb)
             /\ last' = Call("rle_to_mask", <<runs, value, bb>>, "none")
    /\ UNCHANGED <<annos, pre, the_mask, pre_mask, rle>>

NextRle == Encode \/ DecodeEncoded \/ DecodeOnto \/ DecodeInBox

SpecRle == InitRle /\ [][NextRle]_vars

\* C1: for every binary mask m, decoding mask_to_rle(m) with value 1 onto a
\* blank mask of m's shape gives m back, pixel for pixel.
C1_RoundTrip ==
    (/\ last.op = "rle_to_mask"
     /\ rle # <<>>
     /\ last.args = <<rle, 1, zeros(Rows(the_mask), Cols(the_mask))>>)
        => ret = the_mask

\* a non-square mask that starts with a foreground pixel has been encoded
\* and decoded
C1_Witness ==
    /\ last.op = "rle_to_mask"
    /\ rle # <<>>
    /\ last.args[1] = rle
    /\ Rows(the_mask) # Cols(the_mask)
    /\ the_mask.flat[1] = 1
    /\ \E j \in 1..Len(the_mask.flat) : the_mask.flat[j] = 0
    /\ ret = the_mask

\* C9: decoding a run list whose runs sum to more or to less than the area
\* of the target fails with a MalformedRle error.
C9_MalformedRaises ==
    (/\ last.op = "rle_to_mask"
     /\ SumSeq(last.args[1]) # Len(ret.flat))
        => last.raised = "MalformedRle"

(***************************************************************************)
(* domain.py: boxes.  A BbI is [t |-> "BbI", x, y, w, h] with integer      *)
(* fields.  A BbF is [t |-> "BbF", x, y, w, h] whose float fields are      *)
(* fixed-point numbers counted in units of 1 / Den.  A Python number is    *)
(* [v |-> its value in units of 1 / Den, int |-> whether it is an int].    *)
(***************************************************************************)
Den == 2 * 10^6

PyInt(n) == [v |-> n * Den, int |-> TRUE]
PyFloat(u) == [v |-> u, int |-> FALSE]
Field(b, f) == IF b.t = "BbI" THEN PyInt(f) ELSE PyFloat(f)
PyAdd(a, b) == [v |-> a.v + b.v, int |-> a.int /\ b.int]
PySub(a, b) == [v |-> a.v - b.v, int |-> a.int /\ b.int]
\* max(a, b) and min(a, b) of Python return the first argument on a tie
PyMax(a, b) == IF b.v > a.v THEN b ELSE a
PyMin(a, b) == IF b.v < a.v THEN b ELSE a

BbI(x, y, w, h) == [t |-> "BbI", x |-> x, y |-> y, w |-> w, h |-> h]
BbF(x, y, w, h) == [t |-> "BbF", x |-> x, y |-> y, w |-> w, h |-> h]

\* _RowColMixin
r_min(b) == Field(b, b.y)
r_max(b) == PyAdd(Field(b, b.y), Field(b, b.h))
c_min(b) == Field(b, b.x)
c_max(b) == PyAdd(Field(b, b.x), Field(b, b.w))

\* BbI.from_rowcols on int arguments, BbF.from_rowcols on any arguments
\* (pydantic stores a float field as a float)
BbI_from_rowcols(rmin, cmin, rmax, cmax) ==
    BbI(cmin.v \div Den, rmin.v \div Den,
        PySub(cmax, cmin).v \div Den, PySub(rmax, rmin).v \div Den)
BbF_from_rowcols(rmin, cmin, rmax, cmax) ==
    BbF(cmin.v, rmin.v, PySub(cmax, cmin).v, PySub(rmax, rmin).v)

\* _ContainsMixin.__contains__: other in self
contains(self, other) ==
    /\ c_min(other).v >= c_min(self).v
    /\ c_max(other).v <= c_max(self).v
    /\ r_min(other).v >= r_min(self).v
    /\ r_max(other).v <= r_max(self).v

\* _ContainsMixin.intersect
intersect(self, other) ==
    LET cmin == PyMax(c_min(self), c_min(other))
        cmax == PyMin(c_max(self), c_max(other))
        rmin == PyMax(r_min(self), r_min(other))
        rmax == PyMin(r_max(self), r_max(other))
    IN  IF cmin.v < cmax.v /\ rmin.v < rmax.v
        THEN IF cmin.int /\ cmax.int /\ rmin.int /\ rmax.int
             THEN BbI_from_rowcols(rmin, cmin, rmax, cmax)
             ELSE BbF_from_rowcols(rmin, cmin, rmax, cmax)
        ELSE None

\* BbI.slices: the half-open row and column ranges
slices(bb) == [rows |-> <<bb.y, bb.y + bb.h>>, cols |-> <<bb.x, bb.x + bb.w>>]

BbI_from_slices_stops(slc) ==
    BbI(slc.cols[1], slc.rows[1], slc.cols[2], slc.rows[2])

\* BbI.from_slices
BbI_from_slices(slc) ==
    LET x == slc.cols[1]
        y == slc.rows[1]
    IN  BbI(x, y, slc.cols[2] - x, slc.rows[2] - y)

\* int(np.round(u)): round half to even
NpRound(u) ==
    LET q == u \div Den
        r == u % Den
    IN  IF 2 * r < Den THEN q
        ELSE IF 2 * r > Den THEN q + 1
        ELSE IF q % 2 = 0 THEN q ELSE q + 1

\* BbF.to_bbi, BbF.from_bbi, BbF.scale (integer factors)
to_bbi(b) == BbI(NpRound(b.x), NpRound(b.y), NpRound(b.w), NpRound(b.h))
from_bbi(bbi) == BbF(bbi.x * Den, bbi.y * Den, bbi.w * Den, bbi.h * Den)
scale(b, scale_x, scale_y) ==
    BbF(b.x * scale_x, b.y * scale_y, b.w * scale_x, b.h * scale_y)

\* Point, Poly and enclosing_bb; points is a non-empty list
Point(x, y) == [x |-> x, y |-> y]
SetMin(S) == CHOOSE m \in S : \A n \in S : m <= n
SetMax(S) == CHOOSE m \in S : \A n \in S : m >= n
enclosing_bb(points) ==
    LET xs == {points[i].x : i \in 1..Len(points)}
        ys == {points[i].y : i \in 1..Len(points)}
        min_x == SetMin(xs)
        min_y == SetMin(ys)
        max_x == SetMax(xs)
        max_y == SetMax(ys)
    IN  BbF(min_x, min_y, max_x + Den - min_x, max_y + Den - min_y)
Poly(points, bb) == [t |-> "Poly", points |-> points, enclosing_bb |-> bb]
Poly_from_points(points) == Poly(points, enclosing_bb(points))

(***************************************************************************)
(* Specification of the box geometry: a caller intersects two boxes.       *)
(***************************************************************************)
MaxPos == 1      \* largest x and y of the boxes of the geometry specification
MaxSize == 2     \* largest w and h of those boxes

IntBoxes == {BbI(x, y, w, h) : x \in 0..MaxPos, y \in 0..MaxPos,
                               w \in 1..MaxSize, h \in 1..MaxSize}
\* float boxes on the half-unit grid
FloatBoxes == {BbF(x * (Den \div 2), y * (Den \div 2), w * (Den \div 2), h * (Den \div 2)) :
                   x \in 0..(2 * MaxPos), y \in 0..(2 * MaxPos),
                   w \in 1..(2 * MaxSize), h \in 1..(2 * MaxSize)}

InitGeom ==
    /\ IdleAnnos
    /\ the_mask = None
    /\ pre_mask = None
    /\ rle = <<>>
    /\ ret = None
    /\ last = NoOp

\* a.intersect(b) for two boxes of any two classes
Intersect ==
    /\ last.op = "init"
    /\ \E a \in IntBoxes \cup FloatBoxes, b \in IntBoxes \cup FloatBoxes :
         /\ ret' = intersect(a, b)
         /\ last' = Call("intersect", <<a, b>>, "none")
    /\ UNCHANGED <<annos, pre, the_mask, pre_mask, rle>>

NextGeom == Intersect

SpecGeom == InitGeom /\ [][NextGeom]_vars

\* C8: the intersection of an integer box and a float box, taken either
\* way round, is a float box whenever it is not empty; a BbI is returned
\* only when both boxes are BbI.
C8_MixedIsFloat ==
    (/\ last.op = "intersect"
     /\ ret # None
     /\ ret.t = "BbI")
        => (last.args[1].t = "BbI" /\ last.args[2].t = "BbI")

(***************************************************************************)
(* collection_types.py: BboxAnnos and BrushAnnos.  An object is            *)
(* [cls, elts, cat_idxs, selected_mask]; a Canvas is                       *)
(* [t |-> "Canvas", rle, bb, intensity].                                   *)
(***************************************************************************)
Canvas(runs, bb, intensity) ==
    [t |-> "Canvas", rle |-> runs, bb |-> bb, intensity |-> intensity]
Annos(cls, elts, cat_idxs, selected_mask) ==
    [cls |-> cls, elts |-> elts, cat_idxs |-> cat_idxs, selected_mask |-> selected_mask]

Abs(n) == IF n < 0 THEN -n ELSE n
MinOf(a, b) == IF a < b THEN a ELSE b

\* the tolerance of equals, in units of 1 / Den: 1e-6
EPS == 2

\* BbF.equals / Poly.equals, called by append_elt: per-field comparison of
\* two elements of one variant within the tolerance
equals(a, b) ==
    /\ a.t = b.t
    /\ IF a.t = "BbF"
       THEN /\ Abs(a.x - b.x) <= EPS
            /\ Abs(a.y - b.y) <= EPS
            /\ Abs(a.w - b.w) <= EPS
            /\ Abs(a.h - b.h) <= EPS
       ELSE /\ Len(a.points) = Len(b.points)
            /\ \A i \in 1..Len(a.points) :
                 /\ Abs(a.points[i].x - b.points[i].x) <= EPS
                 /\ Abs(a.points[i].y - b.points[i].y) <= EPS

\* _bbox_elt_to_bb (and the lambda of remove_inbox_annos), _brush_elt_to_bb
bbox_elt_to_bb(elt) == IF elt.t = "BbF" THEN elt ELSE elt.enclosing_bb
brush_elt_to_bb(elt) == elt.bb
\* convert_to_box(elt) for the converter of the given class
convert_to_box(cls, elt) ==
    IF cls = "BboxAnnos" THEN bbox_elt_to_bb(elt) ELSE brush_elt_to_bb(elt)

\* the indices (0-based, ascending) of the entries that satisfy keep
RECURSIVE IndsWhere(_, _)
IndsWhere(keep, n) ==
    IF n = 0 THEN <<>>
    ELSE IF keep[n] THEN Append(IndsWhere(keep, n - 1), n - 1)
         ELSE IndsWhere(keep, n - 1)

\* _inbox_inds
inbox_inds(container_boxes, keep_or_remove, cls) ==
    IndsWhere([i \in 1..Len(keep_or_remove) |->
                  \E k \in 1..Len(container_boxes) :
                      contains(container_boxes[k], convert_to_box(cls, keep_or_remove[i]))],
              Len(keep_or_remove))

outofbox_inds_any(container_boxes, keep_or_remove, cls) ==
    IndsWhere([i \in 1..Len(keep_or_remove) |->
                  \E k \in 1..Len(container_boxes) :
                      ~contains(container_boxes[k], convert_to_box(cls, keep_or_remove[i]))],
              Len(keep_or_remove))

\* _outofbox_inds
outofbox_inds(container_boxes, keep_or_remove, cls) ==
    IndsWhere([i \in 1..Len(keep_or_remove) |->
                  \A k \in 1..Len(container_boxes) :
                      ~contains(container_boxes[k], convert_to_box(cls, keep_or_remove[i]))],
              Len(keep_or_remove))

keep_inds_truncating(obj, inds) ==
    [obj EXCEPT !.elts = [k \in 1..Len(inds) |-> obj.elts[inds[k] + 1]],
                !.cat_idxs = [k \in 1..Len(inds) |-> obj.cat_idxs[k]],
                !.selected_mask = [k \in 1..Len(inds) |-> obj.selected_mask[k]]]

\* _keep_inds
keep_inds(obj, inds) ==
    [obj EXCEPT !.elts = [k \in 1..Len(inds) |-> obj.elts[inds[k] + 1]],
                !.cat_idxs = [k \in 1..Len(inds) |-> obj.cat_idxs[inds[k] + 1]],
                !.selected_mask = [k \in 1..Len(inds) |-> obj.selected_mask[inds[k] + 1]]]

check_len_two_lists(elts, cat_idxs, selected_mask) ==
    Len(elts) = Len(cat_idxs)

\* BboxAnnos.check_len, BrushAnnos.check_len: whether the assertion passes
check_len(elts, cat_idxs, selected_mask) ==
    Len(elts) = Len(cat_idxs) /\ Len(cat_idxs) = Len(selected_mask)

append_elt_any_cat(self, elt, cat_idx, selected_mask) ==
    LET e == IF elt.t = "BbI" THEN from_bbi(elt) ELSE elt
        is_duplicate ==
            \E i \in 1..MinOf(Len(self.elts), Len(self.cat_idxs)) : equals(e, self.elts[i])
    IN  IF ~is_duplicate
        THEN [self EXCEPT !.elts = Append(@, e),
                          !.cat_idxs = Append(@, cat_idx),
                          !.selected_mask = Append(@, selected_mask)]
        ELSE self

\* BboxAnnos.append_elt
append_elt(self, elt, cat_idx, selected_mask) ==
    LET e == IF elt.t = "BbI" THEN from_bbi(elt) ELSE elt
        is_duplicate ==
            \E i \in 1..MinOf(Len(self.elts), Len(self.cat_idxs)) :
                equals(e, self.elts[i]) /\ cat_idx = self.cat_idxs[i]
    IN  IF ~is_duplicate
        THEN [self EXCEPT !.elts = Append(@, e),
                          !.cat_idxs = Append(@, cat_idx),
                          !.selected_mask = Append(@, selected_mask)]
        ELSE self

\* the loop of BboxAnnos.extend over zip(other.elts, other.cat_idxs,
\* other.selected_mask), from entry k
RECURSIVE bbox_extend_loop(_, _, _)
bbox_extend_loop(self, other, k) ==
    IF k > MinOf(Len(other.elts), MinOf(Len(other.cat_idxs), Len(other.selected_mask)))
    THEN self
    ELSE bbox_extend_loop(
             append_elt(self, other.elts[k], other.cat_idxs[k], other.selected_mask[k]),
             other, k + 1)

\* BboxAnnos.extend
bbox_extend(self, other) ==
    IF other = None THEN self ELSE bbox_extend_loop(self, other, 1)

RECURSIVE brush_extend_dedup_loop(_, _, _)
brush_extend_dedup_loop(self, other, k) ==
    IF k > Len(other.elts) THEN self
    ELSE brush_extend_dedup_loop(
             IF \E i \in 1..Len(self.elts) :
                    self.elts[i] = other.elts[k] /\ self.cat_idxs[i] = other.cat_idxs[k]
             THEN self
             ELSE [self EXCEPT !.elts = Append(@, other.elts[k]),
                               !.cat_idxs = Append(@, other.cat_idxs[k]),
                               !.selected_mask = Append(@, other.selected_mask[k])],
             other, k + 1)
brush_extend_dedup(self, other) ==
    IF other = None THEN self ELSE brush_extend_dedup_loop(self, other, 1)

\* BrushAnnos.extend
brush_extend(self, other) ==
    IF other = None THEN self
    ELSE [self EXCEPT !.elts = @ \o other.elts,
                      !.cat_idxs = @ \o other.cat_idxs,
                      !.selected_mask = @ \o other.selected_mask]

\* keep_only_inbox_annos and remove_inbox_annos of both classes
keep_only_inbox_annos(self, bbs) ==
    keep_inds(self, inbox_inds(bbs, self.elts, self.cls))
remove_inbox_annos(self, bbs) ==
    keep_inds(self, outofbox_inds(bbs, self.elts, self.cls))

(***************************************************************************)
(* Specification of the collections: a caller constructs a BboxAnnos or a  *)
(* BrushAnnos from three lists and calls one operation on the object.      *)
(***************************************************************************)
MaxLen == 2      \* longest list handed to a constructor
MaxElts == 2     \* largest collection the operations grow
MaxBoxes == 2    \* longest list of container boxes

Cats == {0, 1}
UnitPoly == Poly_from_points(<<Point(0, 0), Point(Den, 0), Point(Den, Den)>>)
\* a unit box and the same box moved by half the tolerance
BoxElts == {BbF(0, 0, Den, Den), BbF(1, 0, Den, Den)}
BboxElts == BoxElts \cup {UnitPoly}
AppendElts == BboxElts \cup {BbI(0, 0, 1, 1)}
CanvasElts == {Canvas(<<0, 1>>, BbI(0, 0, 1, 1), Den),
               Canvas(<<1, 2, 1>>, BbI(0, 0, 2, 2), Den)}
EltsOf(cls) == IF cls = "BboxAnnos" THEN BboxElts ELSE CanvasElts
ContainerBoxes == {BbI(0, 0, 1, 1), BbF(Den, Den, Den, Den)}
Classes == {"BboxAnnos", "BrushAnnos"}
BboxEltLists == SeqsUpTo(BboxElts, MaxLen)
CanvasEltLists == SeqsUpTo(CanvasElts, MaxLen)
EltLists(cls) == IF cls = "BboxAnnos" THEN BboxEltLists ELSE CanvasEltLists
CatLists == SeqsUpTo(Cats, MaxLen)
FlagLists == SeqsUpTo(BOOLEAN, MaxLen)
BoxLists == SeqsUpTo(ContainerBoxes, MaxBoxes)
\* the valid sets handed to extend: unselected entries, at most MaxLen of them
OtherSets(cls) ==
    {Annos(cls, e, c, [i \in 1..Len(e) |-> FALSE]) :
         e \in EltLists(cls), c \in CatLists} \cap
    {o \in [cls : {cls}, elts : EltLists(cls), cat_idxs : CatLists,
            selected_mask : FlagLists] : Len(o.elts) = Len(o.cat_idxs)}
BboxOthers == OtherSets("BboxAnnos")
BrushOthers == OtherSets("BrushAnnos")
Others(cls) == IF cls = "BboxAnnos" THEN BboxOthers ELSE BrushOthers

InitAnnos ==
    /\ annos = None
    /\ pre = None
    /\ the_mask = None
    /\ pre_mask = None
    /\ rle = <<>>
    /\ ret = None
    /\ last = NoOp

\* BboxAnnos(elts=..., cat_idxs=..., selected_mask=...) and the same for
\* BrushAnnos: the validator check_len runs after the fields are set; its
\* failed assert makes the constructor raise and no object is returned
Construct ==
    /\ last.op = "init"
    /\ \E cls \in Classes :
       \E elts \in EltLists(cls), cat_idxs \in CatLists, selected_mask \in FlagLists :
         /\ IF check_len(elts, cat_idxs, selected_mask)
            THEN /\ annos' = Annos(cls, elts, cat_idxs, selected_mask)
                 /\ ret' = annos'
                 /\ last' = Call("construct", <<cls, elts, cat_idxs, selected_mask>>, "none")
            ELSE /\ annos' = annos
                 /\ ret' = None
                 /\ last' = Call("construct", <<cls, elts, cat_idxs, selected_mask>>,
                                 "AssertionError")
    /\ pre' = annos
    /\ UNCHANGED <<the_mask, pre_mask, rle>>

\* annos.append_elt(elt, cat_idx, selected_mask), BboxAnnos only
AppendElt ==
    /\ last.op = "construct"
    /\ annos # None
    /\ annos.cls = "BboxAnnos"
    /\ Len(annos.elts) < MaxElts
    /\ \E elt \in AppendElts, cat_idx \in Cats, selected_mask \in BOOLEAN :
         /\ annos' = append_elt(annos, elt, cat_idx, selected_mask)
         /\ last' = Call("append_elt", <<elt, cat_idx, selected_mask>>, "none")
    /\ pre' = annos
    /\ ret' = None
    /\ UNCHANGED <<the_mask, pre_mask, rle>>

\* annos.extend(other)
Extend ==
    /\ last.op = "construct"
    /\ annos # None
    /\ \E other \in Others(annos.cls) \cup {None} :
         /\ other # None => Len(annos.elts) + Len(other.elts) <= MaxElts
         /\ annos' = IF annos.cls = "BboxAnnos" THEN bbox_extend(annos, other)
                     ELSE brush_extend(annos, other)
         /\ last' = Call("extend", <<other>>, "none")
    /\ pre' = annos
    /\ ret' = None
    /\ UNCHANGED <<the_mask, pre_mask, rle>>

\* annos.keep_only_inbox_annos(bbs)
KeepOnlyInbox ==
    /\ last.op = "construct"
    /\ annos # None
    /\ \E bbs \in BoxLists :
         /\ annos' = keep_only_inbox_annos(annos, bbs)
         /\ last' = Call("keep_only_inbox_annos", <<bbs>>, "none")
    /\ pre' = annos
    /\ ret' = None
    /\ UNCHANGED <<the_mask, pre_mask, rle>>

\* annos.remove_inbox_annos(bbs)
RemoveInbox ==
    /\ last.op = "construct"
    /\ annos # None
    /\ \E bbs \in BoxLists :
         /\ annos' = remove_inbox_annos(annos, bbs)
         /\ last' = Call("remove_inbox_annos", <<bbs>>, "none")
    /\ pre' = annos
    /\ ret' = None
    /\ UNCHANGED <<the_mask, pre_mask, rle>>

NextAnnos == Construct \/ AppendElt \/ Extend \/ KeepOnlyInbox \/ RemoveInbox

SpecAnnos == InitAnnos /\ [][NextAnnos]_vars

(***************************************************************************)
(* Specification of sequences of operations on one collection.  Every      *)
(* element the caller hands over comes with a category index and a         *)
(* selected flag of its own, so that an entry whose category or flag moved *)
(* to another element shows in the collection itself.                      *)
(***************************************************************************)
MaxSeqElts == 3  \* largest collection a sequence of operations grows

TagCat(e) == IF e \in BoxElts \/ e = Canvas(<<0, 1>>, BbI(0, 0, 1, 1), Den) THEN 0 ELSE 1
TagFlag(e) == e \in {BbF(1, 0, Den, Den), Canvas(<<1, 2, 1>>, BbI(0, 0, 2, 2), Den)}
Tagged(cls, elts) ==
    Annos(cls, elts, [i \in 1..Len(elts) |-> TagCat(elts[i])],
          [i \in 1..Len(elts) |-> TagFlag(elts[i])])
TaggedSets(cls) == {Tagged(cls, elts) : elts \in EltLists(cls)}

InitSeq ==
    /\ annos = None
    /\ pre = None
    /\ the_mask = None
    /\ pre_mask = None
    /\ rle = <<>>
    /\ ret = None
    /\ last = NoOp

\* the constructor, on three lists of one length
SeqConstruct ==
    /\ annos = None
    /\ \E cls \in Classes : \E o \in TaggedSets(cls) :
         /\ check_len(o.elts, o.cat_idxs, o.selected_mask)
         /\ annos' = o
    /\ pre' = annos
    /\ ret' = annos'
    /\ last' = Call("construct", <<>>, "none")
    /\ UNCHANGED <<the_mask, pre_mask, rle>>

\* annos.append_elt(elt, cat_idx, selected_mask), BboxAnnos only
SeqAppendElt ==
    /\ annos # None
    /\ annos.cls = "BboxAnnos"
    /\ Len(annos.elts) < MaxSeqElts
    /\ \E elt \in AppendElts :
         LET e == IF elt.t = "BbI" THEN from_bbi(elt) ELSE elt
         IN  annos' = append_elt(annos, elt, TagCat(e), TagFlag(e))
    /\ pre' = annos
    /\ ret' = None
    /\ last' = Call("append_elt", <<>>, "none")
    /\ UNCHANGED <<the_mask, pre_mask, rle>>

\* annos.extend(other)
SeqExtend ==
    /\ annos # None
    /\ \E other \in TaggedSets(annos.cls) \cup {None} :
         /\ other # None => Len(annos.elts) + Len(other.elts) <= MaxSeqElts
         /\ annos' = IF annos.cls = "BboxAnnos" THEN bbox_extend(annos, other)
                     ELSE brush_extend(annos, other)
    /\ pre' = annos
    /\ ret' = None
    /\ last' = Call("extend", <<>>, "none")
    /\ UNCHANGED <<the_mask, pre_mask, rle>>

\* annos.keep_only_inbox_annos(bbs)
SeqKeepOnlyInbox ==
    /\ annos # None
    /\ \E bbs \in BoxLists : annos' = keep_only_inbox_annos(annos, bbs)
    /\ pre' = annos
    /\ ret' = None
    /\ last' = Call("keep_only_inbox_annos", <<>>, "none")
    /\ UNCHANGED <<the_mask, pre_mask, rle>>

\* annos.remove_inbox_annos(bbs)
SeqRemoveInbox ==
    /\ annos # None
    /\ \E bbs \in BoxLists : annos' = remove_inbox_annos(annos, bbs)
    /\ pre' = annos
    /\ ret' = None
    /\ last' = Call("remove_inbox_annos", <<>>, "none")
    /\ UNCHANGED <<the_mask, pre_mask, rle>>

NextSeq ==
    SeqConstruct \/ SeqAppendElt \/ SeqExtend \/ SeqKeepOnlyInbox \/ SeqRemoveInbox

SpecSeq == InitSeq /\ [][NextSeq]_vars

\* the entries of a collection: (element, category index, selected flag)
Zip(o) == [i \in 1..Len(o.elts) |-> <<o.elts[i], o.cat_idxs[i], o.selected_mask[i]>>]

\* whether s is t with some entries left out
RECURSIVE IsSubseq(_, _)
IsSubseq(s, t) ==
    IF s = <<>> THEN TRUE
    ELSE IF t = <<>> THEN FALSE
    ELSE IF Head(s) = Head(t) THEN IsSubseq(Tail(s), Tail(t))
    ELSE IsSubseq(s, Tail(t))

GoverningBox(e) ==
    IF e.t = "BbF" THEN e ELSE IF e.t = "Poly" THEN e.enclosing_bb ELSE e.bb
InsideSome(e, bbs) == \E k \in 1..Len(bbs) : contains(bbs[k], GoverningBox(e))

\* the entries of z whose governing box is (inside = TRUE) or is not
\* (inside = FALSE) contained in one of bbs, in their order
RECURSIVE Survivors(_, _, _)
Survivors(z, bbs, inside) ==
    IF z = <<>> THEN <<>>
    ELSE LET rest == Survivors(Tail(z), bbs, inside)
         IN  IF InsideSome(Head(z)[1], bbs) = inside THEN <<Head(z)>> \o rest ELSE rest

\* C2: append_elt on a set that holds an entry equal within the tolerance to
\* the new element under the same category index leaves the length as it
\* was; when no such entry exists (the same geometry may be held under
\* another category index) the length grows by exactly one.
C2_DedupOnAppend ==
    last.op = "append_elt" =>
        LET elt == last.args[1]
            e == IF elt.t = "BbI" THEN from_bbi(elt) ELSE elt
            held == \E i \in 1..Len(pre.elts) :
                        equals(e, pre.elts[i]) /\ pre.cat_idxs[i] = last.args[2]
        IN  IF held THEN Len(annos.elts) = Len(pre.elts)
            ELSE Len(annos.elts) = Len(pre.elts) + 1

\* an element within the tolerance of a held one, and not identical to it,
\* was offered under the same category and skipped
C2_Witness ==
    /\ last.op = "append_elt"
    /\ Len(pre.elts) = 1
    /\ pre.elts[1] # last.args[1]
    /\ last.args[1].t = "BbF"
    /\ equals(last.args[1], pre.elts[1])
    /\ pre.cat_idxs[1] = last.args[2]
    /\ annos = pre

\* C3: after every sequence of append_elt, extend, keep_only_inbox_annos and
\* remove_inbox_annos on a constructed collection the three lists have one
\* length and every element still stands at the index of the category index
\* and the selected flag it was handed over with; a filter leaves the
\* entries it keeps in their order.
C3_ParallelLists ==
    annos # None =>
        /\ Len(annos.elts) = Len(annos.cat_idxs)
        /\ Len(annos.cat_idxs) = Len(annos.selected_mask)
        /\ \A i \in 1..Len(annos.elts) :
             /\ annos.cat_idxs[i] = TagCat(annos.elts[i])
             /\ annos.selected_mask[i] = TagFlag(annos.elts[i])
        /\ last.op \in {"keep_only_inbox_annos", "remove_inbox_annos"} =>
               IsSubseq(Zip(annos), Zip(pre))

\* a filter dropped the first of two entries with different categories and
\* flags, and the survivor kept its own
C3_Witness ==
    /\ last.op = "remove_inbox_annos"
    /\ pre # None
    /\ Len(pre.elts) = 2
    /\ pre.cat_idxs[1] # pre.cat_idxs[2]
    /\ pre.selected_mask[1] # pre.selected_mask[2]
    /\ Zip(annos) = << Zip(pre)[2] >>

\* C4: constructing a BboxAnnos or a BrushAnnos from lists that do not all
\* have one length fails (the assert of check_len, the ShapeCountMismatch of
\* the specification) and yields no object.
C4_MismatchRaises ==
    (/\ last.op = "construct"
     /\ ~(/\ Len(last.args[2]) = Len(last.args[3])
          /\ Len(last.args[3]) = Len(last.args[4])))
        => (last.raised = "AssertionError" /\ ret = None /\ annos = None)

\* a constructor was given two elements, two categories and one flag
C4_Witness ==
    /\ last.op = "construct"
    /\ Len(last.args[2]) = 2
    /\ Len(last.args[3]) = 2
    /\ Len(last.args[4]) = 1
    /\ last.raised = "AssertionError"
    /\ annos = None

InRange(n, range) == range[1] <= n /\ n < range[2]

\* m[slc] = v for the slices of a box with non-negative corners: numpy
\* clips the slices to the array
SliceFill(m, slc, v) ==
    [m EXCEPT !.flat = [j \in 1..Len(m.flat) |->
        IF InRange((j - 1) \div Cols(m), slc.rows) /\ InRange((j - 1) % Cols(m), slc.cols)
        THEN v ELSE m.flat[j]]]

\* the loop of fill_bbs_on_mask over bbs, from entry k, on the local copy
RECURSIVE fill_bbs_loop(_, _, _, _, _, _)
fill_bbs_loop(copy, bbs, value, w, h, k) ==
    IF k > Len(bbs) THEN copy
    ELSE LET bb == IF bbs[k].t = "BbF" THEN to_bbi(scale(bbs[k], w, h)) ELSE bbs[k]
         IN  fill_bbs_loop(SliceFill(copy, slices(bb), value), bbs, value, w, h, k + 1)

\* fill_bbs_on_mask: im_mask = im_mask.copy() rebinds the local name, the
\* boxes are written into the copy, and nothing is returned
fill_bbs_on_mask(bbs, value, im_mask, abs_coords_input) ==
    LET h == IF abs_coords_input THEN 1 ELSE Rows(im_mask)
        w == IF abs_coords_input THEN 1 ELSE Cols(im_mask)
        copy == fill_bbs_loop(im_mask, bbs, value, w, h, 1)
    IN  [im_mask |-> im_mask, ret |-> None, raised |-> "none", local |-> copy]

\* cv2.fillPoly for one polygon with integer vertices (in pixels): the
\* pixels on the polygon's edges and those inside it (even-odd rule)
OnSegment(px, py, a, b) ==
    /\ (b[1] - a[1]) * (py - a[2]) = (b[2] - a[2]) * (px - a[1])
    /\ MinOf(a[1], b[1]) <= px /\ px <= -MinOf(-a[1], -b[1])
    /\ MinOf(a[2], b[2]) <= py /\ py <= -MinOf(-a[2], -b[2])
Crosses(px, py, a, b) ==
    /\ (a[2] > py) # (b[2] > py)
    /\ IF b[2] > a[2]
       THEN (px - a[1]) * (b[2] - a[2]) < (py - a[2]) * (b[1] - a[1])
       ELSE (px - a[1]) * (b[2] - a[2]) > (py - a[2]) * (b[1] - a[1])
fillPoly(img, pts, color) ==
    LET n == Len(pts)
        nxt(i) == IF i = n THEN 1 ELSE i + 1
        covered(px, py) ==
            \/ \E i \in 1..n : OnSegment(px, py, pts[i], pts[nxt(i)])
            \/ Cardinality({i \in 1..n : Crosses(px, py, pts[i], pts[nxt(i)])}) % 2 = 1
    IN  [img EXCEPT !.flat = [j \in 1..Len(img.flat) |->
            IF covered((j - 1) % Cols(img), (j - 1) \div Cols(img))
            THEN color ELSE img.flat[j]]]

\* the loop of fill_polys_on_mask over polygons, from entry k, on the copy
RECURSIVE fill_polys_loop(_, _, _, _, _, _)
fill_polys_loop(copy, polygons, value, w, h, k) ==
    IF k > Len(polygons) THEN copy
    ELSE LET poly == polygons[k]
             polygon_ == [i \in 1..Len(poly) |->
                             <<NpRound(poly[i].x * w), NpRound(poly[i].y * h)>>]
         IN  fill_polys_loop(fillPoly(copy, polygon_, value), polygons, value, w, h, k + 1)

\* fill_polys_on_mask: the polygons are drawn on a copy, which is returned
fill_polys_on_mask(polygons, value, im_mask, abs_coords_input) ==
    LET h == IF abs_coords_input THEN 1 ELSE Rows(im_mask)
        w == IF abs_coords_input THEN 1 ELSE Cols(im_mask)
    IN  [im_mask |-> im_mask,
         ret |-> fill_polys_loop(im_mask, polygons, value, w, h, 1),
         raised |-> "none"]

\* the entries of elts that pass the generator filters of BboxAnnos.fill_mask
RECURSIVE EltsOfCat(_, _, _, _)
EltsOfCat(self, cat_idx, variant, k) ==
    IF k > MinOf(Len(self.elts), Len(self.cat_idxs)) THEN <<>>
    ELSE (IF cat_idx = self.cat_idxs[k] /\ self.elts[k].t = variant
          THEN <<self.elts[k]>> ELSE <<>>)
         \o EltsOfCat(self, cat_idx, variant, k + 1)

\* BboxAnnos.fill_mask: both helpers are called on the caller's array and
\* what fill_polys_on_mask returns is dropped
bbox_fill_mask(self, im_mask, cat_idx, value) ==
    LET polys == EltsOfCat(self, cat_idx, "Poly", 1)
        after_polys == fill_polys_on_mask([i \in 1..Len(polys) |-> polys[i].points],
                                          value, im_mask, TRUE)
        after_bbs == fill_bbs_on_mask(EltsOfCat(self, cat_idx, "BbF", 1),
                                      value, after_polys.im_mask, TRUE)
    IN  [im_mask |-> after_bbs.im_mask, ret |-> None, raised |-> "none"]

\* im_mask[bb.slices][im_bb_mask > 0] = im_bb_mask[im_bb_mask > 0]: the view
\* im_mask[bb.slices] is clipped to the array, and a boolean index of
\* another shape than the view raises IndexError
CompositeFits(im_mask, bb) ==
    bb.y + bb.h <= Rows(im_mask) /\ bb.x + bb.w <= Cols(im_mask)
Composite(im_mask, bb, im_bb_mask) ==
    [im_mask EXCEPT !.flat = [j \in 1..Len(im_mask.flat) |->
        LET r == (j - 1) \div Cols(im_mask)
            c == (j - 1) % Cols(im_mask)
        IN  IF /\ InRange(r, slices(bb).rows)
               /\ InRange(c, slices(bb).cols)
               /\ Px(im_bb_mask, r - bb.y, c - bb.x) > 0
            THEN Px(im_bb_mask, r - bb.y, c - bb.x)
            ELSE im_mask.flat[j]]]

\* the loop of BrushAnnos.fill_mask over zip(elts, cat_idxs), from entry k
RECURSIVE brush_fill_loop(_, _, _, _, _)
brush_fill_loop(self, im_mask, cat_idx, value, k) ==
    IF k > MinOf(Len(self.elts), Len(self.cat_idxs))
    THEN [im_mask |-> im_mask, ret |-> None, raised |-> "none"]
    ELSE IF cat_idx = self.cat_idxs[k]
    THEN LET elt == self.elts[k]
             im_bb_mask == rle_to_mask_bb(elt.rle, value, elt.bb)
         IN  IF CompositeFits(im_mask, elt.bb)
             THEN brush_fill_loop(self, Composite(im_mask, elt.bb, im_bb_mask),
                                  cat_idx, value, k + 1)
             ELSE [im_mask |-> im_mask, ret |-> None, raised |-> "IndexError"]
    ELSE brush_fill_loop(self, im_mask, cat_idx, value, k + 1)

\* BrushAnnos.fill_mask
brush_fill_mask(self, im_mask, cat_idx, value) ==
    brush_fill_loop(self, im_mask, cat_idx, value, 1)

(***************************************************************************)
(* Specification of the fills: a caller holds a collection and a mask with *)
(* earlier content and calls fill_mask on it.                              *)
(***************************************************************************)
FillH == 2       \* rows of the caller's mask
FillW == 2       \* columns of the caller's mask

FillMasks == {[shape |-> <<FillH, FillW>>, flat |-> f] :
                  f \in SeqsOfLen({0, 1}, FillH * FillW)}

InitFill ==
    /\ \E cls \in Classes : annos \in Others(cls)
    /\ pre = annos
    /\ the_mask \in FillMasks
    /\ pre_mask = the_mask
    /\ rle = <<>>
    /\ ret = None
    /\ last = NoOp

\* annos.fill_mask(the_mask, cat_idx, value) of a BboxAnnos
BboxFillMask ==
    /\ last.op = "init"
    /\ annos.cls = "BboxAnnos"
    /\ \E cat_idx \in Cats, value \in FillValues :
         LET done == bbox_fill_mask(annos, the_mask, cat_idx, value)
         IN  /\ the_mask' = done.im_mask
             /\ ret' = done.ret
             /\ last' = Call("fill_mask", <<cat_idx, value>>, done.raised)
    /\ pre_mask' = the_mask
    /\ UNCHANGED <<annos, pre, rle>>

\* annos.fill_mask(the_mask, cat_idx, value) of a BrushAnnos
BrushFillMask ==
    /\ last.op = "init"
    /\ annos.cls = "BrushAnnos"
    /\ \E cat_idx \in Cats, value \in FillValues :
         LET done == brush_fill_mask(annos, the_mask, cat_idx, value)
         IN  /\ the_mask' = done.im_mask
             /\ ret' = done.ret
             /\ last' = Call("fill_mask", <<cat_idx, value>>, done.raised)
    /\ pre_mask' = the_mask
    /\ UNCHANGED <<annos, pre, rle>>

NextFill == BboxFillMask \/ BrushFillMask

SpecFill == InitFill /\ [][NextFill]_vars

\* whether pixel (r, c) lies in the rows [y, y + h) and the columns
\* [x, x + w) of a box element of the category (the box as an integer box)
UnderBox(r, c, cat_idx) ==
    \E k \in 1..Len(annos.elts) :
        /\ annos.cat_idxs[k] = cat_idx
        /\ annos.elts[k].t = "BbF"
        /\ InRange(r, slices(to_bbi(annos.elts[k])).rows)
        /\ InRange(c, slices(to_bbi(annos.elts[k])).cols)

\* C5: after BboxAnnos.fill_mask(the_mask, cat_idx, value) the caller's mask
\* holds value at every pixel of every box element of the category.
C5_BoxesFilled ==
    (last.op = "fill_mask" /\ annos.cls = "BboxAnnos") =>
        \A r \in 0..(Rows(the_mask) - 1), c \in 0..(Cols(the_mask) - 1) :
            UnderBox(r, c, last.args[1]) => Px(the_mask, r, c) = last.args[2]

\* whether flat position p (0-based) of a canvas lies in one of its
\* foreground runs: the runs with an odd index
UnderForegroundRun(runs, p) ==
    \E i \in 1..Len(runs) :
        /\ (i - 1) % 2 = 1
        /\ SumSeq(SubSeq(runs, 1, i - 1)) <= p
        /\ p < SumSeq(SubSeq(runs, 1, i))

\* whether pixel (r, c) of the image lies under a foreground run of a canvas
\* of the category, at the canvas's bounding box
UnderCanvas(r, c, cat_idx) ==
    \E k \in 1..Len(annos.elts) :
        LET bb == annos.elts[k].bb
        IN  /\ annos.cat_idxs[k] = cat_idx
            /\ InRange(r, slices(bb).rows)
            /\ InRange(c, slices(bb).cols)
            /\ UnderForegroundRun(annos.elts[k].rle, (r - bb.y) * bb.w + (c - bb.x))

\* C6: after BrushAnnos.fill_mask(the_mask, cat_idx, value) every pixel
\* under a foreground run of a canvas of the category holds value, and every
\* other pixel holds what it held before.
C6_Composite ==
    (last.op = "fill_mask" /\ annos.cls = "BrushAnnos") =>
        \A r \in 0..(Rows(the_mask) - 1), c \in 0..(Cols(the_mask) - 1) :
            Px(the_mask, r, c) = IF UnderCanvas(r, c, last.args[1])
                                THEN last.args[2]
                                ELSE Px(pre_mask, r, c)

\* the same for the values that are not zero
C6_CompositeNonZero ==
    (last.op = "fill_mask" /\ last.args[2] # 0) => C6_Composite

(***************************************************************************)
(* domain.py: connected components.  scipy.ndimage.label with its default  *)
(* structure joins pixels that share an edge and numbers the regions in    *)
(* the order their first pixel comes in the row-major scan; find_objects   *)
(* gives, per label, the slices of its tight bounding box.                 *)
(***************************************************************************)
RowOf(m, j) == (j - 1) \div Cols(m)
ColOf(m, j) == (j - 1) % Cols(m)
Foreground(m) == {j \in 1..Len(m.flat) : m.flat[j] # 0}
Adjacent(m, j1, j2) ==
    \/ RowOf(m, j1) = RowOf(m, j2) /\ Abs(ColOf(m, j1) - ColOf(m, j2)) = 1
    \/ ColOf(m, j1) = ColOf(m, j2) /\ Abs(RowOf(m, j1) - RowOf(m, j2)) = 1

\* the foreground pixels connected to those of S
RECURSIVE Grow(_, _)
Grow(m, S) ==
    LET more == {q \in Foreground(m) \ S : \E p \in S : Adjacent(m, p, q)}
    IN  IF more = {} THEN S ELSE Grow(m, S \cup more)

\* scipy.ndimage.label(im): (im_labeled, n_ccs)
RECURSIVE label_loop(_, _, _)
label_loop(im, labeled, n) ==
    LET unlabeled == {j \in Foreground(im) : labeled[j] = 0}
    IN  IF unlabeled = {} THEN [im_labeled |-> [shape |-> im.shape, flat |-> labeled],
                                n_ccs |-> n]
        ELSE LET region == Grow(im, {SetMin(unlabeled)})
             IN  label_loop(im,
                            [j \in 1..Len(im.flat) |-> IF j \in region THEN n + 1
                                                       ELSE labeled[j]],
                            n + 1)
label(im) == label_loop(im, [j \in 1..Len(im.flat) |-> 0], 0)

\* scipy.ndimage.find_objects(im_labeled): the slices of labels 1..n
find_objects(im_labeled, n) ==
    [i \in 1..n |->
        LET at == {j \in 1..Len(im_labeled.flat) : im_labeled.flat[j] = i}
            rs == {RowOf(im_labeled, j) : j \in at}
            cs == {ColOf(im_labeled, j) : j \in at}
        IN  [rows |-> <<SetMin(rs), SetMax(rs) + 1>>, cols |-> <<SetMin(cs), SetMax(cs) + 1>>]]

\* _find_cc_slices
find_cc_slices(im) ==
    LET l == label(im)
    IN  [cc_slices |-> find_objects(l.im_labeled, l.n_ccs),
         im_labeled |-> l.im_labeled, n_ccs |-> l.n_ccs]

\* m[slc].copy() for slices inside the array
Crop(m, slc) ==
    LET h == slc.rows[2] - slc.rows[1]
        w == slc.cols[2] - slc.cols[1]
    IN  [shape |-> <<h, w>>,
         flat |-> [j \in 1..(h * w) |->
                      Px(m, slc.rows[1] + ((j - 1) \div w), slc.cols[1] + ((j - 1) % w))]]

CC_keeping_others(slc, lbl, im, im_labeled) ==
    [im |-> Crop(im, slc), slices |-> slc, bb |-> BbI_from_slices(slc), label |-> lbl]

\* CC.__init__
CC(slc, lbl, im, im_labeled) ==
    LET crop == Crop(im, slc)
        labels == Crop(im_labeled, slc)
    IN  [im |-> [crop EXCEPT !.flat = [j \in 1..Len(crop.flat) |->
                                          IF labels.flat[j] # lbl THEN 0 ELSE crop.flat[j]]],
         slices |-> slc,
         bb |-> BbI_from_slices(slc),
         label |-> lbl]

\* find_ccs: (ccs, im_labeled)
find_ccs(im) ==
    LET found == find_cc_slices(im)
    IN  [ccs |-> [i \in 1..Len(found.cc_slices) |->
                     CC(found.cc_slices[i], (i - 1) + 1, im, found.im_labeled)],
         im_labeled |-> found.im_labeled]

(***************************************************************************)
(* Specification of the components: a caller holds a binary mask and calls *)
(* find_ccs on it.                                                         *)
(***************************************************************************)
CcH == 3         \* rows of the masks handed to find_ccs
CcW == 3         \* columns of the masks handed to find_ccs

MaxFg == 6       \* most foreground pixels of those masks

CcMasks == {[shape |-> <<CcH, CcW>>, flat |-> f] :
                f \in {g \in SeqsOfLen({0, 1}, CcH * CcW) : SumSeq(g) <= MaxFg}}

InitCC ==
    /\ IdleAnnos
    /\ the_mask \in CcMasks
    /\ pre_mask = the_mask
    /\ rle = <<>>
    /\ ret = None
    /\ last = NoOp

\* find_ccs(the_mask)
FindCcs ==
    /\ last.op = "init"
    /\ ret' = find_ccs(the_mask)
    /\ last' = Call("find_ccs", <<the_mask>>, "none")
    /\ UNCHANGED <<annos, pre, the_mask, pre_mask, rle>>

NextCC == FindCcs

SpecCC == InitCC /\ [][NextCC]_vars

\* the maximal connected foreground regions of a mask, as sets of positions
RECURSIVE RegionsAmong(_, _)
RegionsAmong(m, left) ==
    IF left = {} THEN {}
    ELSE LET region == Grow(m, {SetMin(left)})
         IN  {region} \cup RegionsAmong(m, left \ region)
Regions(m) == RegionsAmong(m, Foreground(m))

\* the positions of the mask at which a component's sub-mask, placed at the
\* component's bounding box, is not zero
Claimed(m, cc) ==
    {j \in 1..Len(m.flat) :
        /\ InRange(RowOf(m, j), slices(cc.bb).rows)
        /\ InRange(ColOf(m, j), slices(cc.bb).cols)
        /\ Px(cc.im, RowOf(m, j) - cc.bb.y, ColOf(m, j) - cc.bb.x) # 0}

\* C10: for a binary mask with k maximal connected foreground regions
\* find_ccs returns k components labelled 1..k; each sub-mask, placed at its
\* bounding box, is non-zero exactly on one region, every region is the
\* sub-mask of exactly one component, so every foreground pixel lies in
\* exactly one sub-mask and no sub-mask covers background or another
\* component's pixel.
C10_ComponentsPartition ==
    last.op = "find_ccs" =>
        LET ccs == ret.ccs
            regions == Regions(the_mask)
            claimed == [i \in 1..Len(ccs) |-> Claimed(the_mask, ccs[i])]
        IN  /\ Len(ccs) = Cardinality(regions)
            /\ \A i \in 1..Len(ccs) : ccs[i].label = i
            /\ \A i \in 1..Len(ccs) : claimed[i] \in regions
            /\ \A j \in Foreground(the_mask) :
                   Cardinality({i \in 1..Len(ccs) : j \in claimed[i]}) = 1
            /\ \A i \in 1..Len(ccs) : claimed[i] \subseteq Foreground(the_mask)

\* find_ccs returned two components, one inside the bounding box of the other
C10_Witness ==
    /\ last.op = "find_ccs"
    /\ Len(ret.ccs) = 2
    /\ \E i, k \in 1..2 :
         /\ i # k
         /\ contains(ret.ccs[i].bb, ret.ccs[k].bb)
         /\ Claimed(the_mask, ret.ccs[i]) \cap Claimed(the_mask, ret.ccs[k]) = {}

\* the positions of a mask that lie in a box
BoxPositions(m, bb) ==
    {j \in 1..Len(m.flat) :
        /\ InRange(RowOf(m, j), slices(bb).rows)
        /\ InRange(ColOf(m, j), slices(bb).cols)}

\* the tight bounding rectangle of a set of positions of a mask
TightBox(m, S) ==
    LET rs == {RowOf(m, j) : j \in S}
        cs == {ColOf(m, j) : j \in S}
    IN  BbI(SetMin(cs), SetMin(rs), SetMax(cs) - SetMin(cs) + 1, SetMax(rs) - SetMin(rs) + 1)

\* C11 as stated: for a mask with exactly two disjoint foreground blobs the
\* bounding boxes of the two components returned by find_ccs have an empty
\* intersection.
C11_BoxesDisjoint ==
    (last.op = "find_ccs" /\ Cardinality(Regions(the_mask)) = 2) =>
        /\ Len(ret.ccs) = 2
        /\ intersect(ret.ccs[1].bb, ret.ccs[2].bb) = None

\* C11 amended: for a mask with exactly two disjoint foreground blobs
\* find_ccs returns two components whose bounding boxes are the tight
\* bounding rectangles of the blobs and whose sub-masks claim disjoint
\* pixels; the boxes have an empty intersection exactly when the two
\* rectangles share no pixel.
C11_BoxesTight ==
    (last.op = "find_ccs" /\ Cardinality(Regions(the_mask)) = 2) =>
        LET ccs == ret.ccs
            regions == Regions(the_mask)
        IN  /\ Len(ccs) = 2
            /\ {ccs[1].bb, ccs[2].bb} = {TightBox(the_mask, R) : R \in regions}
            /\ \A i \in 1..2 : ccs[i].bb = TightBox(the_mask, Claimed(the_mask, ccs[i]))
            /\ Claimed(the_mask, ccs[1]) \cap Claimed(the_mask, ccs[2]) = {}
            /\ (intersect(ccs[1].bb, ccs[2].bb) = None) <=>
                   (BoxPositions(the_mask, ccs[1].bb) \cap
                    BoxPositions(the_mask, ccs[2].bb) = {})

\* two blobs whose bounding boxes overlap without one holding the other
C11_Witness ==
    /\ last.op = "find_ccs"
    /\ Cardinality(Regions(the_mask)) = 2
    /\ Len(ret.ccs) = 2
    /\ intersect(ret.ccs[1].bb, ret.ccs[2].bb) # None
    /\ ~contains(ret.ccs[1].bb, ret.ccs[2].bb)
    /\ ~contains(ret.ccs[2].bb, ret.ccs[1].bb)

(***************************************************************************)
(* collection_types.py: the entry of a BboxAnnos that overlaps a zoom box  *)
(* most.  The search zb.find_max_overlap_bb is not part of domain.py and   *)
(* is taken from the specification: the box with the largest intersection  *)
(* area, None when no box overlaps.                                        *)
(***************************************************************************)
\* the area of a box in sixteenths of a pixel; exact for boxes whose fields
\* are multiples of a quarter
Quarter == Den \div 4
Area(b) == (Field(b, b.w).v \div Quarter) * (Field(b, b.h).v \div Quarter)

\* the search over boxes from entry k on; best is the box found so far
RECURSIVE find_max_overlap_loop(_, _, _, _)
find_max_overlap_loop(zb, boxes, best, k) ==
    IF k > Len(boxes) THEN best
    ELSE LET ol == intersect(zb, boxes[k])
             better == /\ ol # None
                       /\ best = None \/ Area(ol) > Area(intersect(zb, best))
         IN  find_max_overlap_loop(zb, boxes, IF better THEN boxes[k] ELSE best, k + 1)
find_max_overlap_bb(zb, boxes) == find_max_overlap_loop(zb, boxes, None, 1)

\* the entries k.. of BboxAnnos.bbs(cat_idx); every is TRUE for the
\* default cat_idx = None, otherwise cat_idx is a list
RECURSIVE bbs_loop(_, _, _, _)
bbs_loop(self, every, cat_idx, k) ==
    IF k > MinOf(Len(self.elts), Len(self.cat_idxs)) THEN <<>>
    ELSE (IF every \/ \E n \in 1..Len(cat_idx) : cat_idx[n] = self.cat_idxs[k]
          THEN <<IF self.elts[k].t = "BbF" THEN self.elts[k] ELSE self.elts[k].enclosing_bb>>
          ELSE <<>>)
         \o bbs_loop(self, every, cat_idx, k + 1)

BboxAnnos_bbs_unfiltered(self, cat_idx) == bbs_loop(self, TRUE, cat_idx, 1)

\* BboxAnnos.bbs, called with a list
BboxAnnos_bbs(self, cat_idx) == bbs_loop(self, FALSE, cat_idx, 1)

\* BboxAnnos.find_max_overlap_bb_with_zoombox
find_max_overlap_bb_with_zoombox(self, zb, cat_idxs) ==
    IF Len(self.elts) > 0
    THEN LET max_ol_bb == find_max_overlap_bb(zb, BboxAnnos_bbs(self, cat_idxs))
         IN  IF max_ol_bb = None THEN zb ELSE to_bbi(max_ol_bb)
    ELSE zb

(***************************************************************************)
(* Specification of the zoom box search: a caller holds a BboxAnnos and    *)
(* asks for the entry that overlaps a zoom box most.                       *)
(***************************************************************************)
MaxZoomElts == 2 \* largest collection searched

\* boxes and a polygon on the quarter grid; the last box lies apart
ZoomElts == {BbF(0, 0, Den, Den),
             BbF(Den \div 2, 0, 3 * (Den \div 2), Den),
             Poly_from_points(<<Point(Den, Den), Point(2 * Den, Den), Point(Den, 2 * Den)>>),
             BbF(4 * Den, 4 * Den, Den, Den)}
ZoomBoxes == {BbI(0, 0, 2, 2), BbI(1, 0, 2, 1), BbI(6, 6, 1, 1)}
CatFilters == {<<>>, <<0>>, <<1>>, <<0, 1>>}
ZoomSets ==
    UNION {{Annos("BboxAnnos", e, c, [i \in 1..n |-> FALSE]) :
               e \in SeqsOfLen(ZoomElts, n), c \in SeqsOfLen(Cats, n)} :
           n \in 0..MaxZoomElts}

InitZoom ==
    /\ annos \in ZoomSets
    /\ pre = annos
    /\ the_mask = None
    /\ pre_mask = None
    /\ rle = <<>>
    /\ ret = None
    /\ last = NoOp

\* annos.find_max_overlap_bb_with_zoombox(zb, cat_idxs)
FindMaxOverlap ==
    /\ last.op = "init"
    /\ \E zb \in ZoomBoxes, cat_idxs \in CatFilters :
         /\ ret' = find_max_overlap_bb_with_zoombox(annos, zb, cat_idxs)
         /\ last' = Call("find_max_overlap_bb_with_zoombox", <<zb, cat_idxs>>, "none")
    /\ UNCHANGED <<annos, pre, the_mask, pre_mask, rle>>

NextZoom == FindMaxOverlap

SpecZoom == InitZoom /\ [][NextZoom]_vars

\* the indices of the entries whose category index is in cat_idxs and whose
\* governing box overlaps zb
Overlapping(self, zb, cat_idxs) ==
    {i \in 1..Len(self.elts) :
        /\ \E n \in 1..Len(cat_idxs) : cat_idxs[n] = self.cat_idxs[i]
        /\ intersect(zb, GoverningBox(self.elts[i])) # None}

\* the result is the integer box of an overlapping entry of largest overlap
IsMaxOverlap(self, zb, cat_idxs, result) ==
    \E i \in Overlapping(self, zb, cat_idxs) :
        /\ \A k \in Overlapping(self, zb, cat_idxs) :
               Area(intersect(zb, GoverningBox(self.elts[i]))) >=
               Area(intersect(zb, GoverningBox(self.elts[k])))
        /\ result = to_bbi(GoverningBox(self.elts[i]))

\* C12 as stated: find_max_overlap_bb_with_zoombox returns zb for a set
\* without elements; for a set with elements the integer box of the entry,
\* among those with a category index in cat_idxs, that overlaps zb most, and
\* the no-match result (None) when none of them overlaps zb.
C12_NoMatchSentinel ==
    last.op = "find_max_overlap_bb_with_zoombox" =>
        LET zb == last.args[1]
            cat_idxs == last.args[2]
        IN  IF Len(annos.elts) = 0 THEN ret = zb
            ELSE IF Overlapping(annos, zb, cat_idxs) = {} THEN ret = None
            ELSE IsMaxOverlap(annos, zb, cat_idxs, ret)

\* C12 amended: as stated, but when no entry with a category index in
\* cat_idxs overlaps zb the result is zb, as for a set without elements.
C12_MaxOverlap ==
    last.op = "find_max_overlap_bb_with_zoombox" =>
        LET zb == last.args[1]
            cat_idxs == last.args[2]
        IN  IF Len(annos.elts) = 0 THEN ret = zb
            ELSE IF Overlapping(annos, zb, cat_idxs) = {} THEN ret = zb
            ELSE IsMaxOverlap(annos, zb, cat_idxs, ret)

\* of two entries that overlap the zoom box the second overlaps more and is
\* returned, rounded to an integer box, while an entry of another category
\* that overlaps as well is passed over
C12_Witness ==
    /\ last.op = "find_max_overlap_bb_with_zoombox"
    /\ Len(annos.elts) = 2
    /\ Cardinality(Overlapping(annos, last.args[1], <<0, 1>>)) = 2
    /\ Overlapping(annos, last.args[1], last.args[2]) = {2}
    /\ ret = to_bbi(GoverningBox(annos.elts[2]))
    /\ from_bbi(ret) # GoverningBox(annos.elts[2])

(***************************************************************************)
(* Further properties of the codec, under SpecRle.                         *)
(***************************************************************************)
\* the first k entries of a run list summed
RunStart(runs, k) == SumSeq(SubSeq(runs, 1, k))

\* the flat positions (1-based) covered by the foreground runs of a run list
ForegroundSpan(runs) ==
    UNION {{j \in (RunStart(runs, i) + 1)..RunStart(runs, i + 1) : TRUE} :
           i \in {n \in 0..(Len(runs) - 1) : n % 2 = 1}}

\* C13: rle_to_mask(rle, value, mask) on a mask the caller supplies returns a
\* mask of the same shape that holds value at exactly the flat positions the
\* foreground runs cover and what the mask held before at every other
\* position; with the value the reference decoder of the tests writes (1)
\* the result is the reference decoder's.
C13_OnlyForegroundWritten ==
    (last.op = "rle_to_mask" /\ "shape" \in DOMAIN last.args[3]) =>
        LET runs == last.args[1]
            value == last.args[2]
            mask == last.args[3]
        IN  /\ ret.shape = mask.shape
            /\ Len(ret.flat) = Len(mask.flat)
            /\ \A j \in 1..Len(mask.flat) :
                   ret.flat[j] = IF j \in ForegroundSpan(runs) THEN value ELSE mask.flat[j]
            /\ value = 1 => ret = ref_rle_to_mask(mask, runs)

\* a mask that held foreground under a background run and background under
\* a foreground run was decoded onto with a value other than 1, in place
C13_Witness ==
    /\ last.op = "rle_to_mask"
    /\ "shape" \in DOMAIN last.args[3]
    /\ last.args[2] = 2
    /\ last.args[3] = pre_mask
    /\ ret = the_mask
    /\ \E j, k \in 1..Len(pre_mask.flat) :
         /\ j \notin ForegroundSpan(last.args[1])
         /\ j <= SumSeq(last.args[1])
         /\ pre_mask.flat[j] = 1
         /\ ret.flat[j] = 1
         /\ k \in ForegroundSpan(last.args[1])
         /\ pre_mask.flat[k] = 0
         /\ ret.flat[k] = 2

\* the mask of the specification's example: 10 x 10, rows 0-1 and columns
\* 0-4 set
ExampleMask ==
    [shape |-> <<10, 10>>,
     flat |-> [j \in 1..100 |-> IF (j - 1) \div 10 <= 1 /\ (j - 1) % 10 <= 4 THEN 1 ELSE 0]]

\* the loop of mask_to_rle on the example, followed quarter by quarter: the
\* runs appended, current_run and current_value after 25, 50 and 75 pixels
\* and the runs returned after all 100
ExampleEncoded ==
    LET flat == ExampleMask.flat
        mask_w == ExampleMask.shape[1]
        mask_h == ExampleMask.shape[2]
        resumed(k, runs, current_run, current_value, stop) ==
            mask_to_rle_loop([j \in 1..stop |-> flat[j]], 1, stop, k,
                             runs, current_run, current_value)
    IN  /\ mask_w * mask_h = Len(flat)
        /\ resumed(0, <<>>, 0, 0, 25) = <<0, 5, 5, 5, 10>>
        /\ resumed(25, <<0, 5, 5, 5>>, 10, 0, 50) = <<0, 5, 5, 5, 35>>
        /\ resumed(50, <<0, 5, 5, 5>>, 35, 0, 75) = <<0, 5, 5, 5, 60>>
        /\ mask_to_rle_loop(flat, mask_w, mask_h, 75, <<0, 5, 5, 5>>, 60, 0)
               = <<0, 5, 5, 5, 85>>

\* C14: for every binary mask, square or not, mask_to_rle returns runs r in
\* canonical form: r[0] counts the leading background pixels in row-major
\* order (0 when the first pixel is foreground), every later run is at
\* least 1, run i covers pixels of value i mod 2 only (so every run is a
\* maximal span of one value) and the runs sum to the number of pixels; the
\* example mask gives [0, 5, 5, 5, 85].
C14_CanonicalRuns ==
    last.op = "mask_to_rle" =>
        LET r == ret
            flat == last.args[1].flat
        IN  /\ Len(r) >= 1
            /\ \A j \in 1..r[1] : flat[j] = 0
            /\ r[1] < Len(flat) => flat[r[1] + 1] = 1
            /\ \A i \in 2..Len(r) : r[i] >= 1
            /\ \A i \in 1..Len(r) :
                   \A j \in (RunStart(r, i - 1) + 1)..RunStart(r, i) : flat[j] = (i - 1) % 2
            /\ SumSeq(r) = Len(flat)
            /\ ExampleEncoded

\* a mask that is not square and starts with foreground was encoded into
\* three runs, the first of length 0
C14_Witness ==
    /\ last.op = "mask_to_rle"
    /\ Rows(last.args[1]) # Cols(last.args[1])
    /\ last.args[1].flat[1] = 1
    /\ Len(ret) = 3
    /\ ret[1] = 0

(***************************************************************************)
(* collection_types.py: BboxAnnos to and from a payload.  A payload value  *)
(* is a number, a list or a mapping with its keys in the order given.      *)
(***************************************************************************)
JNum(n) == [j |-> "num", n |-> n]
JList(vs) == [j |-> "list", vs |-> vs]
JDict(items) == [j |-> "dict", items |-> items]
Item(key, val) == [key |-> key, val |-> val]

HasKey(d, key) == \E i \in 1..Len(d.items) : d.items[i].key = key
Lookup(d, key) == d.items[CHOOSE i \in 1..Len(d.items) : d.items[i].key = key].val

\* BbF.model_dump(), Point.model_dump(), Poly.model_dump(): the fields in the
\* order of their declaration
BbF_model_dump(b) ==
    JDict(<<Item("x", JNum(b.x)), Item("y", JNum(b.y)),
            Item("w", JNum(b.w)), Item("h", JNum(b.h))>>)
Point_model_dump(pt) == JDict(<<Item("x", JNum(pt.x)), Item("y", JNum(pt.y))>>)
Poly_model_dump(poly) ==
    JDict(<<Item("points", JList([i \in 1..Len(poly.points) |->
                                     Point_model_dump(poly.points[i])])),
            Item("enclosing_bb", BbF_model_dump(poly.enclosing_bb))>>)

\* whether pydantic accepts a value as BbF, Point or Poly: a mapping that
\* gives every field a value of the field's type
IsNumField(d, key) == HasKey(d, key) /\ Lookup(d, key).j = "num"
ValidBbF(v) == v.j = "dict" /\ \A key \in {"x", "y", "w", "h"} : IsNumField(v, key)
ValidPoint(v) == v.j = "dict" /\ \A key \in {"x", "y"} : IsNumField(v, key)
ValidPoly(v) ==
    /\ v.j = "dict"
    /\ HasKey(v, "points") /\ Lookup(v, "points").j = "list"
    /\ \A i \in 1..Len(Lookup(v, "points").vs) : ValidPoint(Lookup(v, "points").vs[i])
    /\ HasKey(v, "enclosing_bb") /\ ValidBbF(Lookup(v, "enclosing_bb"))

\* the model pydantic builds from an accepted value: the fields as given
BbF_validate(v) ==
    BbF(Lookup(v, "x").n, Lookup(v, "y").n, Lookup(v, "w").n, Lookup(v, "h").n)
Poly_validate(v) ==
    LET pts == Lookup(v, "points").vs
    IN  Poly([i \in 1..Len(pts) |-> Point(Lookup(pts[i], "x").n, Lookup(pts[i], "y").n)],
             BbF_validate(Lookup(v, "enclosing_bb")))

\* an entry of elts against the annotation BbF | Poly
ValidElt(v) == ValidBbF(v) \/ ValidPoly(v)
Elt_validate(v) == IF ValidBbF(v) THEN BbF_validate(v) ELSE Poly_validate(v)

\* BboxAnnos.resolve_bb_poly: every entry is replaced by the first value of
\* its mapping when the first entry is a mapping
resolve_bb_poly(data) ==
    IF Len(data.elts) > 0 /\ data.elts[1].j = "dict"
    THEN [data EXCEPT !.elts = [i \in 1..Len(data.elts) |-> data.elts[i].items[1].val]]
    ELSE data

\* BboxAnnos.model_validate(data): the before-validator, the fields, then
\* check_len
BboxAnnos_model_validate(data) ==
    LET resolved == resolve_bb_poly(data)
    IN  IF \E i \in 1..Len(resolved.elts) : ~ValidElt(resolved.elts[i])
        THEN [ret |-> None, raised |-> "ValidationError"]
        ELSE IF ~check_len(resolved.elts, resolved.cat_idxs, resolved.selected_mask)
        THEN [ret |-> None, raised |-> "AssertionError"]
        ELSE [ret |-> Annos("BboxAnnos",
                            [i \in 1..Len(resolved.elts) |-> Elt_validate(resolved.elts[i])],
                            resolved.cat_idxs, resolved.selected_mask),
              raised |-> "none"]

\* BboxAnnos.serialize_model
serialize_model(self) ==
    [cat_idxs |-> self.cat_idxs,
     selected_mask |-> self.selected_mask,
     elts |-> [i \in 1..Len(self.elts) |->
                  IF self.elts[i].t = "BbF"
                  THEN JDict(<<Item("BB", BbF_model_dump(self.elts[i]))>>)
                  ELSE JDict(<<Item("Poly", Poly_model_dump(self.elts[i]))>>)]]

\* BboxAnnos.from_elt
from_elt(elt, cat_idx) ==
    Annos("BboxAnnos", <<IF elt.t = "BbI" THEN from_bbi(elt) ELSE elt>>,
          <<cat_idx>>, <<FALSE>>)

(***************************************************************************)
(* Specification of the payloads: a caller validates a payload written     *)
(* from a list of elements, each tagged or bare, or builds a set from the  *)
(* points of a polygon; a set is serialized and the result validated.      *)
(***************************************************************************)
MaxPayload == 2  \* longest list of elements in a payload

\* a polygon whose payload gives a box wider than its points
LoosePoly ==
    Poly(<<Point(0, 0), Point(Den, 0), Point(Den, Den)>>, BbF(0, 0, 4 * Den, 4 * Den))
SerdeElts == {BbF(0, 0, Den, Den), UnitPoly, LoosePoly}
PointLists == {<<Point(0, 0)>>,
               <<Point(0, 0), Point(Den, 0), Point(Den, Den)>>,
               <<Point(Den, 2 * Den), Point(3 * Den, Den), Point(2 * Den, 3 * Den)>>}
\* an element written tagged, as its bare field mapping, or as its bare
\* field mapping with the keys in reverse
Forms == {"tagged", "bare", "bare_reversed"}
Elt_model_dump(e) == IF e.t = "BbF" THEN BbF_model_dump(e) ELSE Poly_model_dump(e)
PayloadElt(e, form) ==
    LET d == Elt_model_dump(e)
        n == Len(d.items)
    IN  IF form = "tagged" THEN JDict(<<Item(IF e.t = "BbF" THEN "BB" ELSE "Poly", d)>>)
        ELSE IF form = "bare" THEN d
        ELSE JDict([i \in 1..n |-> d.items[n + 1 - i]])
Payload(s, forms) ==
    [cat_idxs |-> s.cat_idxs,
     selected_mask |-> s.selected_mask,
     elts |-> [i \in 1..Len(s.elts) |-> PayloadElt(s.elts[i], forms[i])]]
SerdeSets ==
    UNION {{Annos("BboxAnnos", e, c, [i \in 1..n |-> FALSE]) :
               e \in SeqsOfLen(SerdeElts, n), c \in SeqsOfLen(Cats, n)} :
           n \in 0..MaxPayload}

InitSerde ==
    /\ annos = None
    /\ pre = None
    /\ the_mask = None
    /\ pre_mask = None
    /\ rle = <<>>
    /\ ret = None
    /\ last = NoOp

\* BboxAnnos.model_validate(payload) for a payload written from the set pre
Deserialize ==
    /\ last.op = "init"
    /\ \E s \in SerdeSets : \E forms \in SeqsOfLen(Forms, Len(s.elts)) :
         LET payload == Payload(s, forms)
             r == BboxAnnos_model_validate(payload)
         IN  /\ annos' = r.ret
             /\ ret' = r.ret
             /\ pre' = s
             /\ last' = Call("model_validate", <<payload, forms>>, r.raised)
    /\ UNCHANGED <<the_mask, pre_mask, rle>>

\* BboxAnnos.from_elt(Poly.from_points(points), cat_idx)
FromPoints ==
    /\ last.op = "init"
    /\ \E points \in PointLists, cat_idx \in Cats :
         /\ annos' = from_elt(Poly_from_points(points), cat_idx)
         /\ last' = Call("from_elt", <<points, cat_idx>>, "none")
    /\ ret' = annos'
    /\ pre' = annos
    /\ UNCHANGED <<the_mask, pre_mask, rle>>

\* annos.model_dump()
Serialize ==
    /\ last.op \in {"model_validate", "from_elt"}
    /\ annos # None
    /\ ret' = serialize_model(annos)
    /\ pre' = annos
    /\ last' = Call("serialize_model", <<>>, "none")
    /\ UNCHANGED <<annos, the_mask, pre_mask, rle>>

\* BboxAnnos.model_validate(annos.model_dump())
DeserializeSerialized ==
    /\ last.op = "serialize_model"
    /\ LET r == BboxAnnos_model_validate(ret)
       IN  /\ annos' = r.ret
           /\ ret' = r.ret
           /\ last' = Call("model_validate",
                           <<ret, [i \in 1..Len(ret.elts) |-> "tagged"]>>, r.raised)
    /\ UNCHANGED <<pre, the_mask, pre_mask, rle>>

NextSerde == Deserialize \/ FromPoints \/ Serialize \/ DeserializeSerialized

SpecSerde == InitSerde /\ [][NextSerde]_vars

\* C15: every Poly held in a BboxAnnos, whether built from points or read
\* from a payload, has an enclosing_bb that is the tight bound of its
\* points: x = min x, y = min y, w = max x - min x + 1, h = max y - min y + 1.
C15_TightEnclosingBb ==
    annos # None =>
        \A i \in 1..Len(annos.elts) :
            annos.elts[i].t = "Poly" =>
                annos.elts[i].enclosing_bb = enclosing_bb(annos.elts[i].points)

\* C16: validating a payload yields the elements it was written from,
\* whether each element is tagged or given as its bare field mapping, in any
\* mix within one list; in particular validating the serialized form of a
\* set yields that set, each element keeping its variant.
C16_AnyForm ==
    last.op = "model_validate" => (last.raised = "none" /\ annos = pre)

\* C16 for payloads whose elements are all tagged, the serialized form of a
\* set among them: validation yields the set the payload was written from
C16_TaggedForm ==
    (/\ last.op = "model_validate"
     /\ \A i \in 1..Len(last.args[2]) : last.args[2][i] = "tagged")
        => (last.raised = "none" /\ annos = pre)

brush_from_mask_nolead(im_mask, cat_idx) ==
    LET ccs == find_ccs(im_mask).ccs
    IN  Annos("BrushAnnos",
              [i \in 1..Len(ccs) |-> Canvas(mask_to_rle_nolead(ccs[i].im), ccs[i].bb, Den)],
              [i \in 1..Len(ccs) |-> cat_idx],
              [i \in 1..Len(ccs) |-> FALSE])

\* BrushAnnos.from_mask
brush_from_mask(im_mask, cat_idx) ==
    LET ccs == find_ccs(im_mask).ccs
        rles == [i \in 1..Len(ccs) |-> mask_to_rle(ccs[i].im)]
    IN  Annos("BrushAnnos",
              [i \in 1..Len(ccs) |-> Canvas(rles[i], ccs[i].bb, Den)],
              [i \in 1..Len(ccs) |-> cat_idx],
              [i \in 1..Len(ccs) |-> FALSE])

\* the masks a BrushAnnos is built from are those handed to find_ccs
BrushMasks == CcMasks

InitBrush ==
    /\ IdleAnnos
    /\ the_mask \in BrushMasks
    /\ pre_mask = the_mask
    /\ rle = <<>>
    /\ ret = None
    /\ last = NoOp

\* annos = BrushAnnos.from_mask(the_mask, cat_idx)
BrushFromMask ==
    /\ last.op = "init"
    /\ \E cat_idx \in Cats :
         /\ annos' = brush_from_mask(the_mask, cat_idx)
         /\ last' = Call("from_mask", <<the_mask, cat_idx>>, "none")
    /\ ret' = annos'
    /\ UNCHANGED <<pre, the_mask, pre_mask, rle>>

\* annos.fill_mask(z, cat_idx, 1) for z = np.zeros(the_mask.shape) and the
\* category the set was built with; afterwards the_mask is z
FillBlank ==
    /\ last.op = "from_mask"
    /\ LET z == zeros(Rows(the_mask), Cols(the_mask))
           done == brush_fill_mask(annos, z, last.args[2], 1)
       IN  /\ the_mask' = done.im_mask
           /\ ret' = done.ret
           /\ last' = Call("fill_mask", <<z, last.args[2], 1>>, done.raised)
    /\ UNCHANGED <<annos, pre, pre_mask, rle>>

NextBrush == BrushFromMask \/ FillBlank

SpecBrush == InitBrush /\ [][NextBrush]_vars

\* C19: for every binary mask m and category index c the canvases of
\* BrushAnnos.from_mask(m, c) are unselected, have category c and run
\* lengths summing to bb.w * bb.h, and fill_mask(z, c, 1) on an all-zero
\* mask z of m's shape makes z equal to m.
C19_FromMaskFillsBack ==
    /\ last.op \in {"from_mask", "fill_mask"} =>
           /\ Len(annos.cat_idxs) = Len(annos.elts)
           /\ Len(annos.selected_mask) = Len(annos.elts)
           /\ \A i \in 1..Len(annos.elts) :
                  /\ annos.selected_mask[i] = FALSE
                  /\ annos.cat_idxs[i] = last.args[2]
                  /\ SumSeq(annos.elts[i].rle) = annos.elts[i].bb.w * annos.elts[i].bb.h
    /\ last.op = "fill_mask" => (last.raised = "none" /\ the_mask = pre_mask)

\* a mask with two blobs, one inside the bounding box of the other, was
\* turned into two canvases and filled back
C19_Witness ==
    /\ last.op = "fill_mask"
    /\ Len(annos.elts) = 2
    /\ \E i, k \in 1..2 : i # k /\ contains(annos.elts[i].bb, annos.elts[k].bb)
    /\ the_mask = pre_mask
    /\ the_mask # zeros(Rows(the_mask), Cols(the_mask))

(***************************************************************************)
(* converters.py: polygons from a mask.  cv2.findContours follows the      *)
(* borders of the 8-connected foreground regions and of their holes by     *)
(* border following (Suzuki and Abe), in the order the raster scan meets   *)
(* them; a followed pixel is marked 2, or -1 when the pixel to its right   *)
(* is background seen while following, and marked pixels start no border   *)
(* of the same kind again.  Positions are (row, column) pairs, directions  *)
(* 0..7 turn counterclockwise from east.                                   *)
(***************************************************************************)
DirRow == <<0, -1, -1, -1, 0, 1, 1, 1>>
DirCol == <<1, 1, 0, -1, -1, -1, 0, 1>>
Step(p, d) == <<p[1] + DirRow[d + 1], p[2] + DirCol[d + 1]>>
DirTo(p, q) ==
    CHOOSE d \in 0..7 : Step(p, d) = q

\* the pixel of the image f (a flat buffer of the given shape) at p; the
\* frame around the image is background
PixelAt(f, shape, p) ==
    IF p[1] < 0 \/ p[1] >= shape[1] \/ p[2] < 0 \/ p[2] >= shape[2] THEN 0
    ELSE f[p[1] * shape[2] + p[2] + 1]
Marked(f, shape, p, v) == [f EXCEPT ![p[1] * shape[2] + p[2] + 1] = v]

\* the number of turns, from direction d0 on, after which a neighbour of p
\* is not background; turn is 1 (counterclockwise) or -1 (clockwise);
\* 8 when every neighbour is background
TurnsToNeighbour(f, shape, p, d0, turn) ==
    LET hits == {k \in 0..7 : PixelAt(f, shape, Step(p, (d0 + turn * k) % 8)) # 0}
    IN  IF hits = {} THEN 8 ELSE SetMin(hits)

\* border following from the pixel p3 reached from p2, for the border that
\* starts at start and reaches first next
RECURSIVE follow_border(_, _, _, _, _, _, _)
follow_border(f, shape, start, first, p2, p3, points) ==
    LET d0 == (DirTo(p3, p2) + 1) % 8
        k == TurnsToNeighbour(f, shape, p3, d0, 1)
        p4 == Step(p3, (d0 + k) % 8)
        right_seen == \E n \in 0..(k - 1) : (d0 + n) % 8 = 0
        marked == Marked(f, shape, p3,
                         IF right_seen THEN -1
                         ELSE IF PixelAt(f, shape, p3) = 1 THEN 2
                         ELSE PixelAt(f, shape, p3))
    IN  IF p4 = start /\ p3 = first THEN [f |-> marked, points |-> points]
        ELSE follow_border(marked, shape, start, first, p3, p4, Append(points, p4))

\* the border that starts at the pixel start, seen from the background
\* pixel in direction d0 (west for an outer border, east for a hole)
trace_border(f, shape, start, d0) ==
    LET k == TurnsToNeighbour(f, shape, start, d0, -1)
    IN  IF k = 8 THEN [f |-> Marked(f, shape, start, -1), points |-> <<start>>]
        ELSE LET first == Step(start, (d0 + 8 - k) % 8)
             IN  follow_border(f, shape, start, first, first, start, <<start>>)

\* the raster scan from the flat position pos on
RECURSIVE scan_borders(_, _, _, _)
scan_borders(f, shape, pos, contours) ==
    IF pos >= shape[1] * shape[2] THEN contours
    ELSE LET p == <<pos \div shape[2], pos % shape[2]>>
             v == PixelAt(f, shape, p)
         IN  IF v = 1 /\ PixelAt(f, shape, Step(p, 4)) = 0
             THEN LET t == trace_border(f, shape, p, 4)
                  IN  scan_borders(t.f, shape, pos + 1, Append(contours, t.points))
             ELSE IF v >= 1 /\ PixelAt(f, shape, Step(p, 0)) = 0
             THEN LET t == trace_border(f, shape, p, 0)
                  IN  scan_borders(t.f, shape, pos + 1, Append(contours, t.points))
             ELSE scan_borders(f, shape, pos + 1, contours)

\* CHAIN_APPROX_SIMPLE: a point between two steps of one direction is left out
SelectIdx(n, keep(_)) ==
    LET kept == {i \in 1..n : keep(i)}
        nth[i \in 0..n] ==
            IF i = 0 THEN <<>> ELSE IF i \in kept THEN Append(nth[i - 1], i) ELSE nth[i - 1]
    IN  nth[n]
approx_simple(points) ==
    LET n == Len(points)
        prev(i) == points[IF i = 1 THEN n ELSE i - 1]
        next(i) == points[IF i = n THEN 1 ELSE i + 1]
        turns(i) == DirTo(prev(i), points[i]) # DirTo(points[i], next(i))
        idx == SelectIdx(n, turns)
    IN  IF n <= 2 THEN points ELSE [i \in 1..Len(idx) |-> points[idx[i]]]

\* cv2.findContours(im_mask, cv2.RETR_LIST, cv2.CHAIN_APPROX_SIMPLE): the
\* contours as lists of (row, column)
findContours(im_mask) ==
    LET binary == [j \in 1..Len(im_mask.flat) |-> IF im_mask.flat[j] # 0 THEN 1 ELSE 0]
        contours == scan_borders(binary, im_mask.shape, 0, <<>>)
    IN  [i \in 1..Len(contours) |-> approx_simple(contours[i])]

\* extract_polys_from_mask; a coordinate is x or x / w (y or y / h)
extract_polys_from_mask(im_mask, abs_coords_output) ==
    LET contours == findContours(im_mask)
        h == Rows(im_mask)
        w == Cols(im_mask)
    IN  [i \in 1..Len(contours) |->
            [n \in 1..Len(contours[i]) |->
                LET x == contours[i][n][2]
                    y == contours[i][n][1]
                IN  IF abs_coords_output THEN Point(x * Den, y * Den)
                    ELSE Point((x * Den) \div w, (y * Den) \div h)]]

(***************************************************************************)
(* Fill, extract, fill again: a polygon is filled on a blank mask, the     *)
(* polygons of the result are extracted in pixel coordinates and filled on *)
(* a second blank mask of the same shape.                                  *)
(***************************************************************************)
PolyGrid == 5    \* rows and columns of the blank mask

\* polygons with vertices on the pixels of the mask: rectangles (also flat
\* ones), right triangles, and rectangles that run on from their first
\* corner around a rectangle inside them
PxPoint(x, y) == Point(x * Den, y * Den)
RectPoints(x0, y0, x1, y1) ==
    <<PxPoint(x0, y0), PxPoint(x1, y0), PxPoint(x1, y1), PxPoint(x0, y1)>>
PolyRects ==
    {RectPoints(x0, y0, x1, y1) :
        <<x0, y0, x1, y1>> \in {q \in (0..(PolyGrid - 1)) \X (0..(PolyGrid - 1))
                                      \X (0..(PolyGrid - 1)) \X (0..(PolyGrid - 1)) :
                                  q[1] <= q[3] /\ q[2] <= q[4]}}
PolyTriangles ==
    {<<PxPoint(q[1], q[2]), PxPoint(q[1] + q[3], q[2]), PxPoint(q[1], q[2] + q[3])>> :
        q \in {t \in (0..(PolyGrid - 1)) \X (0..(PolyGrid - 1)) \X (1..(PolyGrid - 1)) :
                 t[1] + t[3] < PolyGrid /\ t[2] + t[3] < PolyGrid}}
PolyRings ==
    {RectPoints(0, 0, PolyGrid - 1, PolyGrid - 1)
       \o <<PxPoint(0, 0)>>
       \o <<PxPoint(q[1], q[1]), PxPoint(q[1], q[3]), PxPoint(q[2], q[3]), PxPoint(q[2], q[1]),
            PxPoint(q[1], q[1])>> :
        q \in {t \in (1..(PolyGrid - 2)) \X (1..(PolyGrid - 2)) \X (1..(PolyGrid - 2)) :
                 t[1] < t[2] /\ t[1] < t[3]}}
Polygons == PolyRects \cup PolyTriangles \cup PolyRings

InitPoly ==
    /\ IdleAnnos
    /\ the_mask \in {zeros(PolyGrid, PolyGrid), zeros(PolyGrid - 1, PolyGrid)}
    /\ pre_mask = the_mask
    /\ rle = <<>>
    /\ ret = None
    /\ last = NoOp

\* the_mask = fill_polys_on_mask([polygon], value, np.zeros(shape)); pre_mask
\* keeps the filled mask
FillFirst ==
    /\ last.op = "init"
    /\ \E polygon \in Polygons, value \in 1..MaxValue :
         LET done == fill_polys_on_mask(<<polygon>>, value, the_mask, TRUE)
         IN  /\ the_mask' = done.ret
             /\ pre_mask' = done.ret
             /\ last' = Call("fill_polys_on_mask", <<polygon, value>>, done.raised)
    /\ ret' = None
    /\ UNCHANGED <<annos, pre, rle>>

\* ret = extract_polys_from_mask(the_mask, abs_coords_output=True)
ExtractPolys ==
    /\ last.op = "fill_polys_on_mask"
    /\ ret' = extract_polys_from_mask(the_mask, TRUE)
    /\ last' = Call("extract_polys_from_mask", last.args, "none")
    /\ UNCHANGED <<annos, pre, the_mask, pre_mask, rle>>

\* the_mask = fill_polys_on_mask(ret, value, np.zeros(shape)) with the value
\* of the first fill
Refill ==
    /\ last.op = "extract_polys_from_mask"
    /\ LET z == zeros(Rows(the_mask), Cols(the_mask))
           done == fill_polys_on_mask(ret, last.args[2], z, TRUE)
       IN  /\ the_mask' = done.ret
           /\ last' = Call("refill", last.args, done.raised)
    /\ UNCHANGED <<annos, pre, pre_mask, rle, ret>>

NextPoly == FillFirst \/ ExtractPolys \/ Refill

SpecPoly == InitPoly /\ [][NextPoly]_vars

\* C18: filling a blank mask with a polygon, extracting the polygons of the
\* result and filling them on a second blank mask of the same size gives a
\* mask identical to the first filled mask.
C18_RoundTrip ==
    last.op = "refill" => the_mask = pre_mask

\* the first fill left a background pixel enclosed by foreground, and the
\* second fill covered it
C18_HoleFilled ==
    /\ last.op = "refill"
    /\ \E j \in 1..Len(pre_mask.flat) : pre_mask.flat[j] = 0 /\ the_mask.flat[j] # 0

\* the background pixels of m joined to the frame around m by steps to the
\* left, right, up and down over background
RECURSIVE OpenBackground(_, _)
OpenBackground(m, S) ==
    LET bg == {p \in (0..(Rows(m) - 1)) \X (0..(Cols(m) - 1)) : PixelAt(m.flat, m.shape, p) = 0}
        more == {p \in bg \ S :
                    \E d \in {0, 2, 4, 6} :
                        \/ Step(p, d) \in S
                        \/ Step(p, d)[1] \notin 0..(Rows(m) - 1)
                        \/ Step(p, d)[2] \notin 0..(Cols(m) - 1)}
    IN  IF more = {} THEN S ELSE OpenBackground(m, S \cup more)
Holed(m) ==
    \E p \in (0..(Rows(m) - 1)) \X (0..(Cols(m) - 1)) :
        PixelAt(m.flat, m.shape, p) = 0 /\ p \notin OpenBackground(m, {})

\* where the first fill shuts no background pixel in, the second mask is
\* the first
C18_RoundTripWithoutHoles ==
    (last.op = "refill" /\ ~Holed(pre_mask)) => the_mask = pre_mask

====
